---- MODULE Spec2Model ----
\* Model of the CDC consumer's event reconciliation engine
\* (TiDBCDCConsumer in src/unnamed/part_001): protocol detection, the
\* Simple-protocol branch, and the DELETE+INSERT => UPDATE correlation built
\* on the recentDeletes map, the per-DELETE setTimeout(500) finalize callback
\* and the setInterval(30000) clean-up.
\*
\* Encoding of JavaScript values:
\*   - an absent (undefined) property is the string Absent;
\*   - a JSON number n in the `type` field is written "#n" ("#0", "#1", ...),
\*     a JSON string is itself;
\*   - a row image is a record [present, id, username, email]; id is a
\*     number (NoId when the row has none, JsNull when it is null),
\*     username/email are strings (NumEmail is an email that is a number);
\*   - an array of row images is a record with the same four fields, all
\*     undefined as they are on a JavaScript array, and a field rows;
\*   - a message key is a record [present, json, tbl, table, rid, rowid].
EXTENDS Integers, Sequences, FiniteSets, Bags, TLC

\* ---------------------------------------------------------------- bounds
MaxMsgs == 3
MaxTicks == 1
MaxClockTicks == 2

\* ------------------------------------------------------ program constants
CorrelationWindow == 500
StalenessThreshold == 5000
SweepPeriod == 30000

\* ------------------------------------------------------------ JS values
Absent == "absent"
NoId == 0

\* the id of a row whose id property is null
JsNull == -1
\* an email property that holds a number instead of a string
NumEmail == "#5"

NoRow == [present |-> FALSE, id |-> NoId, username |-> Absent, email |-> Absent]
Row(i, u, e) == [present |-> TRUE, id |-> i, username |-> u, email |-> e]
\* a JSON array of row images: truthy, without id, username or email
ArrayOf(rs) == [present |-> TRUE, id |-> NoId, username |-> Absent, email |-> Absent,
                rows |-> rs]
\* Array.isArray(d)
IsArray(d) == "rows" \in DOMAIN d

NoKey == [present |-> FALSE, json |-> FALSE, tbl |-> Absent, table |-> Absent,
          rid |-> Absent, rowid |-> Absent]
RawKey == [present |-> TRUE, json |-> FALSE, tbl |-> Absent, table |-> Absent,
           rid |-> Absent, rowid |-> Absent]
JsonKey(t, r) == [present |-> TRUE, json |-> TRUE, tbl |-> t, table |-> Absent,
                  rid |-> r, rowid |-> Absent]

\* value bytes that JSON.parse rejects
BadValue == [json |-> FALSE, schema |-> Absent, table |-> Absent, type |-> Absent,
             data |-> NoRow, old |-> NoRow, commitTs |-> Absent]
Payload(s, t, ty, d, o, c) ==
    [json |-> TRUE, schema |-> s, table |-> t, type |-> ty,
     data |-> d, old |-> o, commitTs |-> c]

\* a string-valued property that is missing or the empty string is falsy
Falsy(a) == a \in {Absent, ""}
\* a || b for string-valued properties
Or(a, b) == IF ~Falsy(a) THEN a ELSE b

\* String(n) for the record ids of the model
NumStr(n) == CASE n = 7 -> "7" [] n = 8 -> "8" [] OTHER -> "0"

\* String.prototype.toLowerCase on the operation tags of the model
ToLowerCase(s) ==
    CASE s = "INSERT" -> "insert"
      [] s = "UPDATE" -> "update"
      [] s = "DELETE" -> "delete"
      [] s = "WATERMARK" -> "watermark"
      [] s = "BOOTSTRAP" -> "bootstrap"
      [] s = "RESOLVED" -> "resolved"
      [] OTHER -> s

\* a JSON number in the type field ("#n"): it has no toLowerCase method
IsNumber(ty) == ty \in {"#0", "#1", "#2", "#5"}
\* JavaScript truthiness of the type field (0 and undefined are falsy)
Truthy(ty) == ty # Absent /\ ty # "#0"

\* data.email.includes('updated_') || data.email.includes('mass_update_')
EmailLooksUpdated(e) == e \in {"updated_7@x.com", "mass_update_7@x.com"}

\* ------------------------------------------------------- extractRecordId
NullId == [kind |-> "null", n |-> NoId, s |-> Absent]
\* Priority: id, then username, then email
extractRecordId(data) ==
    IF data.present /\ data.id # NoId
    THEN IF data.id = JsNull THEN NullId
         ELSE [kind |-> "num", n |-> data.id, s |-> Absent]
    ELSE IF data.present /\ data.username # Absent
         THEN [kind |-> "str", n |-> NoId, s |-> data.username]
    ELSE IF data.present /\ data.email # Absent
         THEN [kind |-> "str", n |-> NoId, s |-> data.email]
    ELSE NullId

\* `${recordId}`
IdStr(rid) == IF rid.kind = "num" THEN NumStr(rid.n) ELSE rid.s
\* `${tableName}_${recordId}`
DeleteKey(tableName, rid) == tableName \o "_" \o IdStr(rid)

\* --------------------------------------------------------------- state
VARIABLES
    recentDeletes,      \* this.recentDeletes: Map deleteKey -> {commitTs, timestamp, data}
    timers,             \* pending setTimeout(…, 500) finalize closures
    sweepDue,           \* next due time of the setInterval(…, 30000) clean-up
    now,                \* Date.now(), ms since construction
    ticks,              \* number of clock advances so far
    offset,             \* offset of the next message of the partition
    cdcEventsCounter,   \* tidb_cdc_events_total: bag of {table_name, operation_type}
    cdcEventLog,        \* logger.info('CDC Event', ...) records, in order
    durations,          \* tidb_cdc_processing_duration_seconds observations (bag of labels)
    kafkaMessagesTotal, \* kafka_messages_consumed_total
    kafkaErrorsTotal,   \* kafka_errors_total
    fate,               \* history: tracked DELETE offset -> what became of it
    lastMessage         \* history: the message of the latest processCDCMessage call

vars == <<recentDeletes, timers, sweepDue, now, ticks, offset, cdcEventsCounter,
          cdcEventLog, durations, kafkaMessagesTotal, kafkaErrorsTotal, fate, lastMessage>>

\* ------------------------------------------------------ Map operations
Has(map, k) == k \in DOMAIN map
MapSet(map, k, v) == [x \in DOMAIN map \cup {k} |-> IF x = k THEN v ELSE map[x]]
\* mutant of MapDelete: the key is not removed
MapDelete_Keeps(map, k) == map
MapDelete(map, k) == [x \in DOMAIN map \ {k} |-> map[x]]
EmptyMap == [x \in {} |-> NoRow]

\* ------------------------------------------------------------- metrics
Label(t, op) == [table_name |-> t, operation_type |-> op]
Inc(bag, l) == bag (+) SetToBag({l})

\* one 'CDC Event' log record; site names the logger.info call that wrote it
LogRec(site, t, op, data, oldData, newData, off, key) ==
    [site |-> site, timestamp |-> now, table_name |-> t, operation_type |-> op,
     data |-> data, oldData |-> oldData, newData |-> newData,
     offset |-> off, key |-> key]

\* ---------------------------------------------------- message key parse
KeyParsed(m) == m.key.present /\ m.key.json
\* mutant of KeyTableName: a key that is not JSON names the table
KeyTableName_RawKeyNamesTable(m) ==
    IF KeyParsed(m) THEN Or(m.key.tbl, Or(m.key.table, "unknown"))
    ELSE IF m.key.present THEN "raw" ELSE "unknown"
\* messageKey.tbl || messageKey.table || 'unknown'
KeyTableName(m) ==
    IF KeyParsed(m) THEN Or(m.key.tbl, Or(m.key.table, "unknown")) ELSE "unknown"
\* messageKey.rid || messageKey.rowid || null
KeyRowId(m) ==
    IF KeyParsed(m) THEN Or(m.key.rid, Or(m.key.rowid, Absent)) ELSE Absent

\* ---------------------------------------------------- protocol detection
\* payload.schema && payload.table && payload.type !== undefined
isSimpleProtocol(p) == ~Falsy(p.schema) /\ ~Falsy(p.table) /\ p.type # Absent
\* mutant of IsControl: BOOTSTRAP is not recognised
IsControl_OnlyWatermark(p) == p.type = "WATERMARK"
\* line 257: payload.type === 'WATERMARK' || payload.type === 'BOOTSTRAP'
IsControl(p) == p.type \in {"WATERMARK", "BOOTSTRAP"}
\* mutant of TableName: the table of a parsed key wins over the payload's
TableName_KeyFirst(m) ==
    IF KeyParsed(m) /\ (~Falsy(m.key.tbl) \/ ~Falsy(m.key.table))
    THEN KeyTableName(m)
    ELSE Or(m.value.table, "unknown")
\* payload.table || tableName
TableName(m) == Or(m.value.table, KeyTableName(m))
\* mutant of OperationType: the email heuristic of the Simple branch is
\* applied to the tag of every payload
OperationType_EmailHeuristic(p) ==
    IF p.type = "INSERT" /\ p.data.present /\ EmailLooksUpdated(p.data.email)
    THEN "UPDATE"
    ELSE IF Truthy(p.type) THEN p.type ELSE "unknown"
\* payload.type || 'unknown'
OperationType(p) == IF Truthy(p.type) THEN p.type ELSE "unknown"

\* mutant of TracksDelete: a DELETE is tracked whatever extractRecordId returns
TracksDelete_IgnoresIdentity(m) ==
    /\ OperationType(m.value) = "DELETE"
    /\ m.value.old.present

\* the DELETE branch that tracks the delete (lines 283-285)
TracksDelete(m) ==
    /\ OperationType(m.value) = "DELETE"
    /\ m.value.old.present
    /\ extractRecordId(m.value.old) # NullId
\* the INSERT branch (line 330)
IsInsert(m) == OperationType(m.value) = "INSERT" /\ m.value.data.present
\* mutant of MatchesDelete: the commitTs of the recent DELETE is not compared
MatchesDelete_IgnoresCommitTs(m) ==
    /\ IsInsert(m)
    /\ extractRecordId(m.value.data) # NullId
    /\ Has(recentDeletes, DeleteKey(TableName(m), extractRecordId(m.value.data)))

\* the INSERT finds a recent DELETE with the same commitTs (lines 332-340)
MatchesDelete(m) ==
    /\ IsInsert(m)
    /\ extractRecordId(m.value.data) # NullId
    /\ LET k == DeleteKey(TableName(m), extractRecordId(m.value.data))
       IN  Has(recentDeletes, k) /\ recentDeletes[k].commitTs = m.value.commitTs

\* ------------------------------------------------------------- messages
R7a == Row(7, Absent, "a@x.com")
R7b == Row(7, Absent, "b@x.com")
R8a == Row(8, Absent, "c@x.com")
RNoIdentity == Row(NoId, Absent, Absent)

Split(ty, d, o, c) == [key |-> NoKey, value |-> Payload(Absent, "users", ty, d, o, c)]

Messages ==
    { Split("DELETE", NoRow, R7a, "ts1"),
      Split("DELETE", NoRow, R7a, "ts2"),
      Split("INSERT", R7b, NoRow, "ts1"),
      Split("DELETE", NoRow, R8a, "ts1"),
      Split("DELETE", NoRow, RNoIdentity, "ts1"),
      Split("WATERMARK", NoRow, NoRow, "ts1"),
      Split("#1", NoRow, NoRow, "ts1"),
      [key |-> JsonKey("users", "7"),
       value |-> Payload("testdb", "users", "#0", R7b, NoRow, Absent)],
      [key |-> RawKey, value |-> BadValue] }

\* ----------------------------------------------------------------- Init
Init ==
    /\ recentDeletes = EmptyMap
    /\ timers = {}
    /\ sweepDue = SweepPeriod
    /\ now = 0
    /\ ticks = 0
    /\ offset = 0
    /\ cdcEventsCounter = EmptyBag
    /\ cdcEventLog = <<>>
    /\ durations = EmptyBag
    /\ kafkaMessagesTotal = 0
    /\ kafkaErrorsTotal = 0
    /\ fate = [d \in {} |-> <<>>]
    /\ lastMessage = [key |-> NoKey, value |-> BadValue]

\* ----------------------------------------------------- processCDCMessage
\* The handler contains no await: it runs to completion as one step.
\* mutant of Consumed: the clean-up callback runs inside the handler
Consumed_RunsSweep(m, label) ==
    /\ lastMessage' = m
    /\ kafkaMessagesTotal' = kafkaMessagesTotal + 1
    /\ durations' = Inc(durations, label)
    /\ offset' = offset + 1
    /\ sweepDue' = now + SweepPeriod
    /\ UNCHANGED <<kafkaErrorsTotal, now, ticks>>

\* kafkaMessagesTotal.inc(); timer({...}) that end every normal path
Consumed(m, label) ==
    /\ lastMessage' = m
    /\ kafkaMessagesTotal' = kafkaMessagesTotal + 1
    /\ durations' = Inc(durations, label)
    /\ offset' = offset + 1
    /\ UNCHANGED <<kafkaErrorsTotal, sweepDue, now, ticks>>

\* mutant of Emit: the event is counted but no record is logged
Emit_CounterOnly(label, rec) ==
    /\ cdcEventsCounter' = Inc(cdcEventsCounter, label)
    /\ cdcEventLog' = cdcEventLog

\* cdcEventsCounter.inc({...}); logger.info('CDC Event', {...})
Emit(label, rec) ==
    /\ cdcEventsCounter' = Inc(cdcEventsCounter, label)
    /\ cdcEventLog' = Append(cdcEventLog, rec)

\* mutant of ParseError: the malformed message is counted as an event
ParseError_CountsEvent(m) ==
    /\ offset < MaxMsgs
    /\ ~m.value.json
    /\ cdcEventsCounter' = Inc(cdcEventsCounter, Label("unknown", "parse_error"))
    /\ Consumed(m, Label("unknown", "parse_error"))
    /\ UNCHANGED <<recentDeletes, timers, cdcEventLog, fate>>

\* lines 187-198: the value is not JSON
ParseError(m) ==
    /\ offset < MaxMsgs
    /\ ~m.value.json
    /\ Consumed(m, Label("unknown", "parse_error"))
    /\ UNCHANGED <<recentDeletes, timers, cdcEventsCounter, cdcEventLog, fate>>

\* lines 205-213: operation of a Simple-protocol payload
SimpleType(p) ==
    CASE p.type = "#0" -> "INSERT"
      [] p.type = "#1" -> "UPDATE"
      [] p.type = "#2" -> "DELETE"
      [] OTHER -> "unknown"

\* lines 215-224: let data = {} unless the payload carries data
SimpleData(p) ==
    IF SimpleType(p) # "unknown" /\ p.data.present THEN p.data
    ELSE Row(NoId, Absent, Absent)

\* lines 226-231: INSERT whose email looks updated is counted as UPDATE
SimpleOperation(p) ==
    IF /\ SimpleType(p) = "INSERT"
       /\ SimpleData(p).email # Absent
       /\ EmailLooksUpdated(SimpleData(p).email)
    THEN "UPDATE" ELSE SimpleType(p)

\* line 227: data.email.includes is not a function when email is a number
SimpleThrows(p) ==
    /\ SimpleType(p) = "INSERT"
    /\ SimpleData(p).email = NumEmail

\* mutant of SimpleProtocol: a Simple INSERT claims the pending delete of
\* its record
SimpleProtocol_ClaimsDelete(m) ==
    /\ offset < MaxMsgs
    /\ m.value.json
    /\ isSimpleProtocol(m.value)
    /\ ~SimpleThrows(m.value)
    /\ LET p == m.value
           tableName == Or(p.table, KeyTableName(m))
           op == SimpleOperation(p)
           k == DeleteKey(tableName, extractRecordId(SimpleData(p)))
       IN  /\ Emit(Label(tableName, ToLowerCase(op)),
                   LogRec("simple", tableName, op, SimpleData(p), p.old, NoRow,
                          offset, m.key))
           /\ Consumed(m, Label(tableName, OperationType(p)))
           /\ recentDeletes' = IF SimpleType(p) = "INSERT" /\ Has(recentDeletes, k)
                               THEN MapDelete(recentDeletes, k) ELSE recentDeletes
    /\ UNCHANGED <<timers, fate>>

\* lines 200-253 and 411-412 (old_data of the log record is kept in oldData)
SimpleProtocol(m) ==
    /\ offset < MaxMsgs
    /\ m.value.json
    /\ isSimpleProtocol(m.value)
    /\ ~SimpleThrows(m.value)
    /\ LET p == m.value
           tableName == Or(p.table, KeyTableName(m))
           op == SimpleOperation(p)
       IN  /\ Emit(Label(tableName, ToLowerCase(op)),
                   LogRec("simple", tableName, op, SimpleData(p), p.old, NoRow,
                          offset, m.key))
           /\ Consumed(m, Label(tableName, OperationType(p)))
    /\ UNCHANGED <<recentDeletes, timers, fate>>

\* mutant of ControlEvent: the control event is not counted as consumed
ControlEvent_Uncounted(m) ==
    /\ offset < MaxMsgs
    /\ m.value.json
    /\ ~isSimpleProtocol(m.value)
    /\ IsControl(m.value)
    /\ Emit(Label("unknown", ToLowerCase(m.value.type)),
            LogRec("control", "unknown", m.value.type, m.value, NoRow, NoRow, offset, m.key))
    /\ lastMessage' = m
    /\ durations' = Inc(durations, Label("unknown", ToLowerCase(m.value.type)))
    /\ offset' = offset + 1
    /\ UNCHANGED <<kafkaMessagesTotal, kafkaErrorsTotal, sweepDue, now, ticks>>
    /\ UNCHANGED <<recentDeletes, timers, fate>>

\* lines 257-276: WATERMARK and BOOTSTRAP
ControlEvent(m) ==
    /\ offset < MaxMsgs
    /\ m.value.json
    /\ ~isSimpleProtocol(m.value)
    /\ IsControl(m.value)
    /\ Emit(Label("unknown", ToLowerCase(m.value.type)),
            LogRec("control", "unknown", m.value.type, m.value, NoRow, NoRow, offset, m.key))
    /\ Consumed(m, Label("unknown", ToLowerCase(m.value.type)))
    /\ UNCHANGED <<recentDeletes, timers, fate>>

SplitPath(m) ==
    /\ offset < MaxMsgs
    /\ m.value.json
    /\ ~isSimpleProtocol(m.value)
    /\ ~IsControl(m.value)

\* mutant of DeleteInfo: a missing commitTs is stored as a value nothing equals
DeleteInfo_RequiresCommitTs(m) ==
    [commitTs |-> IF m.value.commitTs = Absent THEN "none" ELSE m.value.commitTs,
     timestamp |-> now, data |-> m.value.old, off |-> offset]

\* the entry recentDeletes.set stores (lines 287-291); off is a history
\* field: the offset of the DELETE message that wrote the entry
DeleteInfo(m) ==
    [commitTs |-> m.value.commitTs, timestamp |-> now, data |-> m.value.old,
     off |-> offset]

\* mutant of FinalizeTask: the closure looks the entry up by table only
FinalizeTask_WrongKey(m) ==
    [deleteKey |-> TableName(m),
     commitTs |-> m.value.commitTs, tableName |-> TableName(m),
     payload |-> m.value, offset |-> offset, messageKey |-> m.key,
     due |-> now + CorrelationWindow]

\* the closure setTimeout captures (lines 300-321)
FinalizeTask(m) ==
    [deleteKey |-> DeleteKey(TableName(m), extractRecordId(m.value.old)),
     commitTs |-> m.value.commitTs, tableName |-> TableName(m),
     payload |-> m.value, offset |-> offset, messageKey |-> m.key,
     due |-> now + CorrelationWindow]

\* history of a tracked DELETE: its key, commitTs and capture time, out: how
\* the entry it wrote left the map (in order), ins: the offsets of the INSERTs
\* with its key and commitTs that were processed while its timer was pending;
\* tableName and recordId: the pair the key was built from
Tracking(m) ==
    [deleteKey |-> DeleteKey(TableName(m), extractRecordId(m.value.old)),
     commitTs |-> m.value.commitTs, capturedAt |-> now, out |-> <<>>, ins |-> {},
     tableName |-> TableName(m), recordId |-> extractRecordId(m.value.old)]
\* the entry written by DELETE d leaves the map with outcome o
Leaves(f, d, o) == [f EXCEPT ![d].out = Append(@, o)]
\* an INSERT for key k with commitTs c is processed at the current offset
SeesInsert(f, k, c) ==
    [d \in DOMAIN f |->
        IF /\ \E t \in timers : t.offset = d
           /\ f[d].deleteKey = k
           /\ f[d].commitTs = c
        THEN [f[d] EXCEPT !.ins = @ \cup {offset}] ELSE f[d]]

\* mutant of TrackDelete: the DELETE is tracked and also emitted at once
TrackDelete_EmitsAtOnce(m) ==
    /\ SplitPath(m)
    /\ TracksDelete(m)
    /\ LET k == DeleteKey(TableName(m), extractRecordId(m.value.old))
           f == IF Has(recentDeletes, k)
                THEN Leaves(fate, recentDeletes[k].off, "overwritten") ELSE fate
       IN  /\ recentDeletes' = MapSet(recentDeletes, k, DeleteInfo(m))
           /\ fate' = [d \in DOMAIN f \cup {offset} |->
                          IF d = offset THEN Tracking(m) ELSE f[d]]
    /\ timers' = timers \cup {FinalizeTask(m)}
    /\ Consumed(m, Label(TableName(m), "delete"))
    /\ Emit(Label(TableName(m), "delete"),
            LogRec("other", TableName(m), "DELETE", m.value, NoRow, NoRow, offset, m.key))

\* lines 283-327: DELETE with an identity is tracked, nothing is emitted
TrackDelete(m) ==
    /\ SplitPath(m)
    /\ TracksDelete(m)
    /\ LET k == DeleteKey(TableName(m), extractRecordId(m.value.old))
           f == IF Has(recentDeletes, k)
                THEN Leaves(fate, recentDeletes[k].off, "overwritten") ELSE fate
       IN  /\ recentDeletes' = MapSet(recentDeletes, k, DeleteInfo(m))
           /\ fate' = [d \in DOMAIN f \cup {offset} |->
                          IF d = offset THEN Tracking(m) ELSE f[d]]
    /\ timers' = timers \cup {FinalizeTask(m)}
    /\ Consumed(m, Label(TableName(m), "delete"))
    /\ UNCHANGED <<cdcEventsCounter, cdcEventLog>>

\* mutant of UpdateDetected: the entry is not removed from recentDeletes
UpdateDetected_KeepsEntry(m) ==
    /\ SplitPath(m)
    /\ MatchesDelete(m)
    /\ LET k == DeleteKey(TableName(m), extractRecordId(m.value.data))
           deleteInfo == recentDeletes[k]
       IN  /\ fate' = Leaves(SeesInsert(fate, k, m.value.commitTs), deleteInfo.off, "update")
           /\ Emit(Label(TableName(m), "update"),
                   LogRec("update", TableName(m), "UPDATE", NoRow, deleteInfo.data,
                          m.value.data, offset, m.key))
    /\ Consumed(m, Label(TableName(m), "update"))
    /\ UNCHANGED <<recentDeletes, timers>>

\* lines 330-370: INSERT that follows a DELETE with the same commitTs
UpdateDetected(m) ==
    /\ SplitPath(m)
    /\ MatchesDelete(m)
    /\ LET k == DeleteKey(TableName(m), extractRecordId(m.value.data))
           deleteInfo == recentDeletes[k]
       IN  /\ recentDeletes' = MapDelete(recentDeletes, k)
           /\ fate' = Leaves(SeesInsert(fate, k, m.value.commitTs), deleteInfo.off, "update")
           /\ Emit(Label(TableName(m), "update"),
                   LogRec("update", TableName(m), "UPDATE", NoRow, deleteInfo.data,
                          m.value.data, offset, m.key))
    /\ Consumed(m, Label(TableName(m), "update"))
    /\ UNCHANGED timers

\* mutant of RegularInsert: the INSERT discards the entry under its key
RegularInsert_DropsEntry(m) ==
    /\ SplitPath(m)
    /\ IsInsert(m)
    /\ ~MatchesDelete(m)
    /\ Emit(Label(TableName(m), "insert"),
            LogRec("insert", TableName(m), "INSERT", m.value.data, NoRow, NoRow,
                   offset, m.key))
    /\ Consumed(m, Label(TableName(m), "insert"))
    /\ fate' = IF extractRecordId(m.value.data) = NullId THEN fate
               ELSE SeesInsert(fate, DeleteKey(TableName(m), extractRecordId(m.value.data)),
                               m.value.commitTs)
    /\ recentDeletes' =
           [k \in DOMAIN recentDeletes \
                  {DeleteKey(TableName(m), extractRecordId(m.value.data))} |->
               recentDeletes[k]]
    /\ UNCHANGED timers

\* lines 330-392: INSERT with no matching DELETE
RegularInsert(m) ==
    /\ SplitPath(m)
    /\ IsInsert(m)
    /\ ~MatchesDelete(m)
    /\ Emit(Label(TableName(m), "insert"),
            LogRec("insert", TableName(m), "INSERT", m.value.data, NoRow, NoRow,
                   offset, m.key))
    /\ Consumed(m, Label(TableName(m), "insert"))
    /\ fate' = IF extractRecordId(m.value.data) = NullId THEN fate
               ELSE SeesInsert(fate, DeleteKey(TableName(m), extractRecordId(m.value.data)),
                               m.value.commitTs)
    /\ UNCHANGED <<recentDeletes, timers>>

\* lines 394-412: every other operation
OtherOperation(m) ==
    /\ SplitPath(m)
    /\ ~TracksDelete(m)
    /\ ~IsInsert(m)
    /\ ~IsNumber(OperationType(m.value))
    /\ Emit(Label(TableName(m), ToLowerCase(OperationType(m.value))),
            LogRec("other", TableName(m), OperationType(m.value), m.value, NoRow, NoRow,
                   offset, m.key))
    /\ Consumed(m, Label(TableName(m), OperationType(m.value)))
    /\ UNCHANGED <<recentDeletes, timers, fate>>

\* line 397: operationType.toLowerCase is not a function on a number
OtherThrows(m) ==
    /\ ~isSimpleProtocol(m.value)
    /\ ~IsControl(m.value)
    /\ ~TracksDelete(m)
    /\ ~IsInsert(m)
    /\ IsNumber(OperationType(m.value))

\* mutant of ProcessingError: the caught failure is not counted
ProcessingError_Uncounted(m) ==
    /\ offset < MaxMsgs
    /\ m.value.json
    /\ \/ isSimpleProtocol(m.value) /\ SimpleThrows(m.value)
       \/ OtherThrows(m)
    /\ durations' = Inc(durations, Label("error", "error"))
    /\ offset' = offset + 1
    /\ lastMessage' = m
    /\ UNCHANGED <<recentDeletes, timers, sweepDue, now, ticks, cdcEventsCounter,
                   cdcEventLog, kafkaMessagesTotal, kafkaErrorsTotal, fate>>

\* lines 414-418: the catch of processCDCMessage; both throwing statements
\* come before the first effect of their branch
ProcessingError(m) ==
    /\ offset < MaxMsgs
    /\ m.value.json
    /\ \/ isSimpleProtocol(m.value) /\ SimpleThrows(m.value)
       \/ OtherThrows(m)
    /\ kafkaErrorsTotal' = kafkaErrorsTotal + 1
    /\ durations' = Inc(durations, Label("error", "error"))
    /\ offset' = offset + 1
    /\ lastMessage' = m
    /\ UNCHANGED <<recentDeletes, timers, sweepDue, now, ticks, cdcEventsCounter,
                   cdcEventLog, kafkaMessagesTotal, fate>>

\* ------------------------------------------------------------- timers
\* Node.js runs a timer callback no sooner than its delay, between (never
\* inside) message handlers, and promises neither exact timing nor ordering.

\* mutant of FinalizeEmits: the commitTs of the entry is not compared
FinalizeEmits_IgnoresCommitTs(t) == Has(recentDeletes, t.deleteKey)

\* lines 300-321: the finalize callback scheduled by a tracked DELETE
FinalizeEmits(t) ==
    /\ Has(recentDeletes, t.deleteKey)
    /\ recentDeletes[t.deleteKey].commitTs = t.commitTs

\* mutant of Finalize: the DELETE is emitted but the entry stays in the map
Finalize_KeepsEntry(t) ==
    /\ t \in timers
    /\ now >= t.due
    /\ timers' = timers \ {t}
    /\ IF FinalizeEmits(t)
       THEN /\ Emit(Label(t.tableName, "delete"),
                    LogRec("finalize", t.tableName, "DELETE", t.payload, NoRow, NoRow,
                           t.offset, t.messageKey))
            /\ fate' = Leaves(fate, recentDeletes[t.deleteKey].off, "delete")
            /\ UNCHANGED recentDeletes
       ELSE UNCHANGED <<cdcEventsCounter, cdcEventLog, recentDeletes, fate>>
    /\ UNCHANGED <<sweepDue, now, ticks, offset, durations, kafkaMessagesTotal,
                   kafkaErrorsTotal, lastMessage>>

Finalize(t) ==
    /\ t \in timers
    /\ now >= t.due
    /\ timers' = timers \ {t}
    /\ IF FinalizeEmits(t)
       THEN /\ Emit(Label(t.tableName, "delete"),
                    LogRec("finalize", t.tableName, "DELETE", t.payload, NoRow, NoRow,
                           t.offset, t.messageKey))
            /\ fate' = Leaves(fate, recentDeletes[t.deleteKey].off, "delete")
            /\ recentDeletes' = MapDelete(recentDeletes, t.deleteKey)
       ELSE UNCHANGED <<cdcEventsCounter, cdcEventLog, recentDeletes, fate>>
    /\ UNCHANGED <<sweepDue, now, ticks, offset, durations, kafkaMessagesTotal,
                   kafkaErrorsTotal, lastMessage>>

\* mutant of IsStale: an entry aged exactly 5000 ms is stale too
IsStale_AtThreshold(value) == now - value.timestamp >= StalenessThreshold
\* line 120: now - value.timestamp > 5000
IsStale(value) == now - value.timestamp > StalenessThreshold

\* lines 116-124: the periodic clean-up
Sweep ==
    /\ now >= sweepDue
    /\ sweepDue' = now + SweepPeriod
    /\ LET stale == {k \in DOMAIN recentDeletes : IsStale(recentDeletes[k])}
           gone == {recentDeletes[k].off : k \in stale}
       IN  /\ recentDeletes' = [k \in DOMAIN recentDeletes \ stale |-> recentDeletes[k]]
           /\ fate' = [d \in DOMAIN fate |->
                          IF d \in gone THEN [fate[d] EXCEPT !.out = Append(@, "swept")]
                          ELSE fate[d]]
    /\ UNCHANGED <<timers, now, ticks, offset, cdcEventsCounter, cdcEventLog, durations,
                   kafkaMessagesTotal, kafkaErrorsTotal, lastMessage>>

\* the clock advances
TickSteps == {500, 30000}
Tick(d) ==
    /\ ticks < MaxTicks
    /\ now' = now + d
    /\ ticks' = ticks + 1
    /\ UNCHANGED <<recentDeletes, timers, sweepDue, offset, cdcEventsCounter,
                   cdcEventLog, durations, kafkaMessagesTotal, kafkaErrorsTotal, fate, lastMessage>>

Next ==
    \/ \E m \in Messages : ParseError(m)
    \/ \E m \in Messages : SimpleProtocol(m)
    \/ \E m \in Messages : ControlEvent(m)
    \/ \E m \in Messages : TrackDelete(m)
    \/ \E m \in Messages : UpdateDetected(m)
    \/ \E m \in Messages : RegularInsert(m)
    \/ \E m \in Messages : OtherOperation(m)
    \/ \E m \in Messages : ProcessingError(m)
    \/ \E t \in timers : Finalize(t)
    \/ Sweep
    \/ \E d \in TickSteps : Tick(d)

Spec == Init /\ [][Next]_vars

\* ------------------------------------------------ the clean-up in time
\* DELETEs, their finalize callbacks and the clean-up, on a clock that can
\* reach an age of exactly 5000 ms at a clean-up and go on after it.
SweepMessages ==
    { Split("DELETE", NoRow, R7a, "ts1"),
      Split("DELETE", NoRow, R8a, "ts1") }

ClockSteps == {5000, 30000}
ClockTick(d) ==
    /\ ticks < MaxClockTicks
    /\ now' = now + d
    /\ ticks' = ticks + 1
    /\ UNCHANGED <<recentDeletes, timers, sweepDue, offset, cdcEventsCounter,
                   cdcEventLog, durations, kafkaMessagesTotal, kafkaErrorsTotal, fate, lastMessage>>

NextSweep ==
    \/ \E m \in SweepMessages : TrackDelete(m)
    \/ \E t \in timers : Finalize(t)
    \/ Sweep
    \/ \E d \in ClockSteps : ClockTick(d)

SpecSweep == Init /\ [][NextSweep]_vars

\* --------------------------------------- every finalize callback fires
\* The DELETE and INSERT branches and the finalize callbacks when the
\* clean-up never runs: the clock moves on to the due time of a scheduled
\* callback, and a callback that is due is eventually run by the event loop.
LiveMessages ==
    { Split("DELETE", NoRow, R7a, "ts1"),
      Split("DELETE", NoRow, R7a, "ts2"),
      Split("INSERT", R7b, NoRow, "ts1"),
      Split("DELETE", NoRow, R8a, "ts1") }

TimePasses ==
    /\ \E t \in timers : t.due > now /\ now' = t.due
    /\ UNCHANGED <<recentDeletes, timers, sweepDue, ticks, offset, cdcEventsCounter,
                   cdcEventLog, durations, kafkaMessagesTotal, kafkaErrorsTotal, fate, lastMessage>>

NextLive ==
    \/ \E m \in LiveMessages : TrackDelete(m)
    \/ \E m \in LiveMessages : UpdateDetected(m)
    \/ \E m \in LiveMessages : RegularInsert(m)
    \/ \E t \in timers : Finalize(t)
    \/ TimePasses

SpecLive ==
    /\ Init /\ [][NextLive]_vars
    /\ WF_vars(TimePasses)
    /\ WF_vars(\E t \in timers : Finalize(t))

\* ------------------------------------ messages with and without commitTs
\* The DELETE and INSERT branches and the finalize callbacks for payloads
\* that carry a commitTs and payloads that carry none.
CommitTsMessages ==
    { Split("DELETE", NoRow, R7a, "ts1"),
      Split("DELETE", NoRow, R7a, Absent),
      Split("INSERT", R7b, NoRow, "ts1"),
      Split("INSERT", R7b, NoRow, Absent),
      Split("DELETE", NoRow, R8a, Absent),
      Split("INSERT", R8a, NoRow, "ts2") }

NextCommitTs ==
    \/ \E m \in CommitTsMessages : TrackDelete(m)
    \/ \E m \in CommitTsMessages : UpdateDetected(m)
    \/ \E m \in CommitTsMessages : RegularInsert(m)
    \/ \E t \in timers : Finalize(t)
    \/ TimePasses

SpecCommitTs == Init /\ [][NextCommitTs]_vars

\* -------------------------------------------- where the table name comes from
\* Payloads with, without and with an empty table field, under keys that
\* name the table in tbl, in table, in both or not at all.
TableKey(t, tb) == [JsonKey(t, "7") EXCEPT !.table = tb]
Keyed(k, t, ty, d, o) == [key |-> k, value |-> Payload(Absent, t, ty, d, o, "ts1")]

TableMessages ==
    { Keyed(TableKey("orders", Absent), "users", "DELETE", NoRow, R7a),
      Keyed(TableKey("users", Absent), Absent, "INSERT", R7b, NoRow),
      Keyed(TableKey(Absent, "users"), Absent, "INSERT", R7b, NoRow),
      Keyed(TableKey("orders", "users"), Absent, "INSERT", R7b, NoRow),
      Keyed(TableKey("users", Absent), "", "INSERT", R7b, NoRow),
      Keyed(NoKey, Absent, "INSERT", R7b, NoRow),
      Keyed(TableKey(Absent, Absent), Absent, "DELETE", NoRow, R7a),
      Keyed(TableKey("users", Absent), "users", "WATERMARK", NoRow, NoRow),
      Keyed(TableKey("orders", Absent), Absent, "UPDATE", R7b, R7a),
      [key |-> TableKey("orders", Absent),
       value |-> Payload("testdb", "users", "#2", NoRow, R7a, Absent)] }

NextTables ==
    \/ \E m \in TableMessages : SimpleProtocol(m)
    \/ \E m \in TableMessages : ControlEvent(m)
    \/ \E m \in TableMessages : TrackDelete(m)
    \/ \E m \in TableMessages : UpdateDetected(m)
    \/ \E m \in TableMessages : RegularInsert(m)
    \/ \E m \in TableMessages : OtherOperation(m)
    \/ \E t \in timers : Finalize(t)
    \/ TimePasses

SpecTables == Init /\ [][NextTables]_vars

\* ------------------------------------------- wire formats, clock at rest
\* The same handler fed with every payload shape it distinguishes; no time
\* passes, so no finalize callback and no clean-up runs.
RUser == Row(NoId, "bob", "bob@x.com")
RUserB == Row(NoId, "bob", "rob@x.com")
REmail == Row(NoId, Absent, "a@x.com")
RNullId == Row(JsNull, "bob", "bob@x.com")
RUnderscore == Row(NoId, "x_7", Absent)
RUpdated == Row(7, Absent, "updated_7@x.com")
RMassUpdate == Row(8, Absent, "mass_update_7@x.com")
RNumEmail == Row(7, Absent, NumEmail)

Simple(ty, d, o) ==
    [key |-> JsonKey("users", "7"), value |-> Payload("testdb", "users", ty, d, o, Absent)]
SplitOn(t, ty, d, o, c) == [key |-> NoKey, value |-> Payload(Absent, t, ty, d, o, c)]

FormatMessages ==
    { Simple("#0", R7b, NoRow),
      Simple("#0", RUpdated, NoRow),
      Simple("#0", RMassUpdate, NoRow),
      Simple("#0", RNumEmail, NoRow),
      Simple("#1", R7b, R7a),
      Simple("#2", NoRow, R7a),
      Simple("#5", R7b, NoRow),
      Simple("INSERT", RUpdated, NoRow),
      Split("DELETE", NoRow, R7a, "ts1"),
      Split("INSERT", R7b, NoRow, "ts1"),
      Split("INSERT", RUpdated, NoRow, "ts1"),
      Split("DELETE", NoRow, RUser, "ts1"),
      Split("INSERT", RUserB, NoRow, "ts1"),
      Split("DELETE", NoRow, REmail, "ts1"),
      Split("DELETE", NoRow, RNullId, "ts1"),
      Split("DELETE", NoRow, RNoIdentity, "ts1"),
      Split("DELETE", NoRow, NoRow, "ts1"),
      Split("INSERT", RNoIdentity, NoRow, "ts1"),
      Split("DELETE", NoRow, RUnderscore, "ts1"),
      SplitOn("users_x", "INSERT", R7b, NoRow, "ts1"),
      Split("INSERT", ArrayOf(<<R7a, R8a>>), NoRow, "ts1"),
      Split("INSERT", ArrayOf(<<>>), NoRow, "ts1"),
      Split("UPDATE", ArrayOf(<<R7a>>), NoRow, "ts1"),
      Split("WATERMARK", R7b, R7a, "ts1"),
      Split("BOOTSTRAP", ArrayOf(<<R7a>>), NoRow, "ts1"),
      Split("UPDATE", R7b, R7a, "ts1"),
      Split(Absent, R7b, NoRow, "ts1"),
      Split("#1", NoRow, NoRow, "ts1"),
      [key |-> RawKey, value |-> Payload(Absent, "users", "DELETE", NoRow, R8a, "ts1")],
      [key |-> RawKey, value |-> Payload(Absent, Absent, "INSERT", R8a, NoRow, "ts1")],
      [key |-> RawKey, value |-> BadValue] }

NextFormats ==
    \/ \E m \in FormatMessages : ParseError(m)
    \/ \E m \in FormatMessages : SimpleProtocol(m)
    \/ \E m \in FormatMessages : ControlEvent(m)
    \/ \E m \in FormatMessages : TrackDelete(m)
    \/ \E m \in FormatMessages : UpdateDetected(m)
    \/ \E m \in FormatMessages : RegularInsert(m)
    \/ \E m \in FormatMessages : OtherOperation(m)
    \/ \E m \in FormatMessages : ProcessingError(m)

SpecFormats == Init /\ [][NextFormats]_vars

\* ------------------------------------- the handler of src/unnamed/part_000
\* The earlier consumer: key parse, value parse and Simple-protocol branch
\* are the same text as in part_001 (part_000 lines 134-229); the else
\* branch handles Canal JSON arrays and "other message formats" and keeps
\* no state between messages.

\* payload.op (only some payloads carry the property)
PayloadOp(p) == IF "op" \in DOMAIN p THEN p.op ELSE Absent
WithOp(p, op) == [x \in DOMAIN p \cup {"op"} |-> IF x = "op" THEN op ELSE p[x]]

\* part_000 lines 241 and 247: row.email.includes / operationType.toLowerCase
\* is not a function
CanalRowThrows(p, row) ==
    \/ IsNumber(OperationType(p))
    \/ OperationType(p) = "INSERT" /\ row.email = NumEmail

\* mutant of CanalRowOperation: the first row decides for the whole array
CanalRowOperation_FirstRowDecides(p, row) ==
    IF /\ OperationType(p) = "INSERT"
       /\ p.data.rows[1].email # Absent
       /\ EmailLooksUpdated(p.data.rows[1].email)
    THEN "UPDATE" ELSE OperationType(p)

\* part_000 lines 235-244: the operation of one row of the array
CanalRowOperation(p, row) ==
    IF /\ OperationType(p) = "INSERT"
       /\ row.email # Absent
       /\ EmailLooksUpdated(row.email)
    THEN "UPDATE" ELSE OperationType(p)

\* the number of rows the for loop handles before a row throws
CanalRowsDone(p) ==
    LET rows == p.data.rows
        bad == {i \in 1..Len(rows) : CanalRowThrows(p, rows[i])}
    IN  IF bad = {} THEN Len(rows)
        ELSE (CHOOSE i \in bad : \A j \in bad : i <= j) - 1

RECURSIVE IncAll(_, _)
IncAll(bag, labels) ==
    IF labels = <<>> THEN bag ELSE IncAll(Inc(bag, Head(labels)), Tail(labels))

\* part_000 lines 232-262 and 286-293: one event per row of payload.data
CanalJson(m) ==
    /\ offset < MaxMsgs
    /\ m.value.json
    /\ ~isSimpleProtocol(m.value)
    /\ IsArray(m.value.data)
    /\ LET p == m.value
           rows == p.data.rows
           done == CanalRowsDone(p)
           tableName == IF rows = <<>> THEN KeyTableName(m) ELSE TableName(m)
       IN  /\ cdcEventsCounter' =
                  IncAll(cdcEventsCounter,
                         [i \in 1..done |->
                             Label(TableName(m), ToLowerCase(CanalRowOperation(p, rows[i])))])
           /\ cdcEventLog' = cdcEventLog \o
                  [i \in 1..done |->
                      LogRec("canal-json", TableName(m), CanalRowOperation(p, rows[i]),
                             rows[i], NoRow, NoRow, offset, m.key)]
           /\ IF done = Len(rows)
              THEN Consumed(m, Label(tableName, OperationType(p)))
              ELSE /\ kafkaErrorsTotal' = kafkaErrorsTotal + 1
                   /\ durations' = Inc(durations, Label("error", "error"))
                   /\ offset' = offset + 1
                   /\ lastMessage' = m
                   /\ UNCHANGED <<kafkaMessagesTotal, sweepDue, now, ticks>>
    /\ UNCHANGED <<recentDeletes, timers, fate>>

\* part_000 line 266: payload.type || payload.op || 'unknown'
OtherFormatOperation(p) ==
    IF Truthy(p.type) THEN p.type ELSE Or(PayloadOp(p), "unknown")

\* part_000 lines 264-283 and 286-287: other message formats
OtherFormat(m) ==
    /\ offset < MaxMsgs
    /\ m.value.json
    /\ ~isSimpleProtocol(m.value)
    /\ ~IsArray(m.value.data)
    /\ ~IsNumber(OtherFormatOperation(m.value))
    /\ Emit(Label(TableName(m), ToLowerCase(OtherFormatOperation(m.value))),
            LogRec("other-format", TableName(m), OtherFormatOperation(m.value), m.value,
                   NoRow, NoRow, offset, m.key))
    /\ Consumed(m, Label(TableName(m), OperationType(m.value)))
    /\ UNCHANGED <<recentDeletes, timers, fate>>

\* part_000 lines 289-293: the catch, reached before any effect by the
\* Simple branch (line 204) and the other-formats branch (line 270)
CanalProcessingError(m) ==
    /\ offset < MaxMsgs
    /\ m.value.json
    /\ \/ isSimpleProtocol(m.value) /\ SimpleThrows(m.value)
       \/ /\ ~isSimpleProtocol(m.value)
          /\ ~IsArray(m.value.data)
          /\ IsNumber(OtherFormatOperation(m.value))
    /\ kafkaErrorsTotal' = kafkaErrorsTotal + 1
    /\ durations' = Inc(durations, Label("error", "error"))
    /\ offset' = offset + 1
    /\ lastMessage' = m
    /\ UNCHANGED <<recentDeletes, timers, sweepDue, now, ticks, cdcEventsCounter,
                   cdcEventLog, kafkaMessagesTotal, fate>>

CanalMessages ==
    { Simple("#0", R7b, NoRow),
      Simple("#0", RUpdated, NoRow),
      Simple("#0", RMassUpdate, NoRow),
      Simple("#0", RNumEmail, NoRow),
      Simple("#1", RUpdated, R7a),
      Simple("#2", NoRow, R7a),
      Simple("INSERT", RUpdated, NoRow),
      Split("INSERT", ArrayOf(<<R7a, RUpdated, R8a>>), NoRow, "ts1"),
      Split("INSERT", ArrayOf(<<RMassUpdate, R7b>>), NoRow, "ts1"),
      Split("INSERT", ArrayOf(<<>>), NoRow, "ts1"),
      Split("INSERT", ArrayOf(<<R7a, RNumEmail>>), NoRow, "ts1"),
      Split("UPDATE", ArrayOf(<<RUpdated>>), NoRow, "ts1"),
      Split("DELETE", ArrayOf(<<R7a, R8a>>), NoRow, "ts1"),
      Split("#1", ArrayOf(<<R7a>>), NoRow, "ts1"),
      [key |-> JsonKey("orders", "9"),
       value |-> Payload(Absent, Absent, "INSERT", ArrayOf(<<RUpdated, R7a>>), NoRow, "ts1")],
      Split("INSERT", RUpdated, NoRow, "ts1"),
      Split("WATERMARK", NoRow, NoRow, "ts1"),
      Split("#1", NoRow, NoRow, "ts1"),
      [key |-> NoKey,
       value |-> WithOp(Payload(Absent, "users", Absent, NoRow, NoRow, Absent), "c")],
      [key |-> RawKey, value |-> BadValue] }

NextCanal ==
    \/ \E m \in CanalMessages : ParseError(m)
    \/ \E m \in CanalMessages : SimpleProtocol(m)
    \/ \E m \in CanalMessages : CanalJson(m)
    \/ \E m \in CanalMessages : OtherFormat(m)
    \/ \E m \in CanalMessages : CanalProcessingError(m)

SpecCanal == Init /\ [][NextCanal]_vars

\* ======================================================== properties
LogIdx == 1..Len(cdcEventLog)
\* the 'CDC Event' records written by call site `site` for message offset off
EventsAt(site, off) ==
    {i \in LogIdx : cdcEventLog[i].site = site /\ cdcEventLog[i].offset = off}
Tracked == DOMAIN fate
\* the finalize timer of tracked DELETE d has fired
TimerFired(d) == ~\E t \in timers : t.offset = d
\* the entry written by tracked DELETE d is still in the map
EntryOf(d) == {k \in DOMAIN recentDeletes : recentDeletes[k].off = d}
First(S) == CHOOSE x \in S : \A y \in S : x <= y
\* tracked DELETE d was collapsed into an UPDATE by a matching INSERT
Collapsed(d) == \E i \in 1..Len(fate[d].out) : fate[d].out[i] = "update"
\* a standalone DELETE event was emitted for tracked DELETE d
EmittedDelete(d) == EventsAt("finalize", d) # {}

\* C1: a tracked DELETE followed, before its finalize timer fires, by an
\* INSERT with the same key and commitTs gives exactly one UPDATE event and
\* never a DELETE event or an INSERT event for that pair.
C1_PairGivesOneUpdate ==
    \A d \in Tracked :
        fate[d].ins # {} =>
            /\ Cardinality(EventsAt("update", First(fate[d].ins))) = 1
            /\ EventsAt("insert", First(fate[d].ins)) = {}
            /\ EventsAt("finalize", d) = {}

\* C2: at most one emission: no tracked DELETE is both collapsed into an
\* UPDATE and emitted as a standalone DELETE.
C2_AtMostOneEmission ==
    \A d \in Tracked : ~(Collapsed(d) /\ EmittedDelete(d))

\* C3: a tracked DELETE that saw no matching INSERT before its timer fired
\* has, once the timer has fired, exactly one DELETE event, written no
\* earlier than the end of its window, and no entry left in the map.
C3_UnmatchedDeleteEmittedOnce ==
    \A d \in Tracked :
        (TimerFired(d) /\ fate[d].ins = {}) =>
            /\ Cardinality(EventsAt("finalize", d)) = 1
            /\ \A i \in EventsAt("finalize", d) :
                   cdcEventLog[i].timestamp >= fate[d].capturedAt + CorrelationWindow
            /\ EntryOf(d) = {}

\* C4: every stored DELETE ends in exactly one of: collapsed into an UPDATE,
\* emitted as a standalone DELETE by a finalize task, discarded by the sweep.
C4_ExactlyOneOutcome ==
    \A d \in Tracked :
        (TimerFired(d) /\ EntryOf(d) = {}) =>
            fate[d].out \in {<<"update">>, <<"delete">>, <<"swept">>}

\* C5: a finalize task that fires after the entry of its own DELETE was
\* claimed by a matching INSERT emits nothing and removes nothing.
C5_LateFinalizeIsNoOp ==
    [][\A t \in timers :
          (t \notin timers' /\ Collapsed(t.offset)) =>
              UNCHANGED <<cdcEventsCounter, cdcEventLog, recentDeletes>>]_vars

\* this step is the processCDCMessage call for message m
Processed(m) == offset' = offset + 1 /\ lastMessage' = m
\* m is an INSERT with a row image on the Split-Update path
SplitInsert(m) ==
    /\ m.value.json
    /\ m.value.schema = Absent
    /\ m.value.type = "INSERT"
    /\ m.value.data.present
\* the key under which an INSERT looks for a pending delete
InsertKey(m) == DeleteKey(TableName(m), extractRecordId(m.value.data))
\* a pending delete with the INSERT's key and commitTs is in the map
HasPendingMatch(m) ==
    /\ extractRecordId(m.value.data) # NullId
    /\ InsertKey(m) \in DOMAIN recentDeletes
    /\ recentDeletes[InsertKey(m)].commitTs = m.value.commitTs
\* this step appends exactly one 'CDC Event' record and counts it under label
EmitsOne(label) ==
    /\ Len(cdcEventLog') = Len(cdcEventLog) + 1
    /\ SubSeq(cdcEventLog', 1, Len(cdcEventLog)) = cdcEventLog
    /\ cdcEventsCounter' = Inc(cdcEventsCounter, label)
NewEvent == cdcEventLog'[Len(cdcEventLog')]

\* C6: an INSERT that matches a pending delete removes the entry in the same
\* step and emits one UPDATE whose old image is the stored oldData and whose
\* new image is the INSERT's data.
C6_MatchingInsertEmitsUpdate ==
    [][\A m \in Messages :
          (Processed(m) /\ SplitInsert(m) /\ HasPendingMatch(m)) =>
              /\ InsertKey(m) \notin DOMAIN recentDeletes'
              /\ \A k \in DOMAIN recentDeletes \ {InsertKey(m)} :
                     k \in DOMAIN recentDeletes' /\ recentDeletes'[k] = recentDeletes[k]
              /\ EmitsOne(Label(TableName(m), "update"))
              /\ NewEvent.operation_type = "UPDATE"
              /\ NewEvent.oldData = recentDeletes[InsertKey(m)].data
              /\ NewEvent.newData = m.value.data
              /\ NewEvent.offset = offset]_vars

\* an UPDATE carrying the old image of the DELETE and the new image of the
\* INSERT has been emitted and the entry is gone
C6_Witness ==
    /\ "users_7" \notin DOMAIN recentDeletes
    /\ \E i \in LogIdx :
          /\ cdcEventLog[i].operation_type = "UPDATE"
          /\ cdcEventLog[i].oldData = R7a
          /\ cdcEventLog[i].newData = R7b

\* C7: an INSERT with no pending delete under its key, or with one whose
\* commitTs differs, is emitted as exactly one INSERT event when processed.
C7_UnmatchedInsertEmitsInsert ==
    [][\A m \in Messages :
          (Processed(m) /\ SplitInsert(m) /\ ~HasPendingMatch(m)) =>
              /\ EmitsOne(Label(TableName(m), "insert"))
              /\ NewEvent.operation_type = "INSERT"
              /\ NewEvent.data = m.value.data
              /\ NewEvent.offset = offset
              /\ NewEvent.timestamp = now
              /\ recentDeletes' = recentDeletes]_vars

\* an INSERT was emitted while a delete with another commitTs stays pending
C7_Witness ==
    /\ "users_7" \in DOMAIN recentDeletes
    /\ recentDeletes["users_7"].commitTs = "ts2"
    /\ lastMessage = Split("INSERT", R7b, NoRow, "ts1")
    /\ \E i \in LogIdx :
          /\ cdcEventLog[i].operation_type = "INSERT"
          /\ cdcEventLog[i].offset = offset - 1
          /\ cdcEventLog[i].offset > recentDeletes["users_7"].off

\* d is the latest tracked DELETE for its key
LatestFor(d) ==
    \A e \in Tracked : fate[e].deleteKey = fate[d].deleteKey => e <= d
\* the entry written by tracked DELETE d was removed by a finalize task
Finalized(d) == fate[d].out = <<"delete">>

\* C8: the entry of a tracked DELETE leaves the map at most once; when a
\* finalize task removed it first, an INSERT with the same key and commitTs
\* processed afterwards is emitted as a standalone INSERT, never as UPDATE.
C8_FinalizeFirstGivesDeleteAndInsert ==
    [][/\ \A d \in DOMAIN fate' : Len(fate'[d].out) <= 1
       /\ \A m \in Messages : \A d \in Tracked :
            ( /\ Processed(m) /\ SplitInsert(m)
              /\ extractRecordId(m.value.data) # NullId
              /\ fate[d].deleteKey = InsertKey(m)
              /\ fate[d].commitTs = m.value.commitTs
              /\ LatestFor(d) /\ Finalized(d) ) =>
                /\ EmitsOne(Label(TableName(m), "insert"))
                /\ NewEvent.operation_type = "INSERT"
                /\ \E i \in LogIdx : /\ cdcEventLog[i].site = "finalize"
                                     /\ cdcEventLog[i].operation_type = "DELETE"
                                     /\ cdcEventLog[i].table_name = TableName(m)]_vars

\* the finalize task emitted the DELETE, then the INSERT came: one DELETE
\* event, one INSERT event, no UPDATE event
C8_Witness ==
    /\ lastMessage = Split("INSERT", R7b, NoRow, "ts1")
    /\ \E d \in Tracked :
          /\ Finalized(d) /\ LatestFor(d)
          /\ fate[d].deleteKey = "users_7" /\ fate[d].commitTs = "ts1"
          /\ EventsAt("finalize", d) # {}
    /\ Len(cdcEventLog) = 2
    /\ cdcEventLog[1].operation_type = "DELETE"
    /\ cdcEventLog[2].operation_type = "INSERT"

\* the entry written by tracked DELETE d was discarded by the sweep
Swept(d) == \E i \in 1..Len(fate[d].out) : fate[d].out[i] = "swept"

\* C9: a sweep run removes every pending delete older than 5 s and emits
\* nothing, and a DELETE discarded by the sweep is never emitted later by
\* its finalize task.
C9_SweepDiscardsSilently ==
    [][/\ sweepDue' # sweepDue =>
            /\ \A k \in DOMAIN recentDeletes :
                   now - recentDeletes[k].timestamp > StalenessThreshold =>
                       k \notin DOMAIN recentDeletes'
            /\ UNCHANGED <<cdcEventsCounter, cdcEventLog>>
       /\ \A d \in Tracked :
            Swept(d) => \A i \in 1..Len(cdcEventLog') :
                ~(cdcEventLog'[i].site = "finalize" /\ cdcEventLog'[i].offset = d)]_vars

\* this step handles a message whose value is not JSON
ParseErrorStep == \E m \in Messages : Processed(m) /\ ~m.value.json

FailsInside(m) ==
    /\ m.value.json
    /\ \/ /\ isSimpleProtocol(m.value)
          /\ m.value.type = "#0"
          /\ m.value.data.present
          /\ m.value.data.email = NumEmail
       \/ /\ ~isSimpleProtocol(m.value)
          /\ m.value.type \in {"#1", "#2", "#5"}

\* C11: processCDCMessage returns normally for every message in every
\* state; a message whose handling fails is counted once by kafka_errors_total
\* and observed once under the (error, error) label, and it changes neither
\* the store, the timers nor the event metrics, so that the following
\* messages are processed as they would have been; no other message counts
\* as an error.
C11_FailureIsContained ==
    /\ [](offset < MaxMsgs =>
            \A m \in FormatMessages : ENABLED (NextFormats /\ Processed(m)))
    /\ [][\A m \in FormatMessages :
            /\ (Processed(m) /\ FailsInside(m)) =>
                  /\ kafkaErrorsTotal' = kafkaErrorsTotal + 1
                  /\ durations' = Inc(durations, Label("error", "error"))
                  /\ UNCHANGED <<recentDeletes, timers, sweepDue, cdcEventsCounter,
                                 cdcEventLog, kafkaMessagesTotal, fate>>
            /\ (Processed(m) /\ ~FailsInside(m)) =>
                  /\ kafkaErrorsTotal' = kafkaErrorsTotal
                  /\ ~BagIn(Label("error", "error"), durations' (-) durations)]_vars

\* a message failed between a DELETE and its INSERT, and the pair was
\* still collapsed into one UPDATE
C11_Witness ==
    /\ kafkaErrorsTotal = 1
    /\ BagIn(Label("error", "error"), durations)
    /\ lastMessage = Split("INSERT", R7b, NoRow, "ts1")
    /\ Len(cdcEventLog) = 1
    /\ cdcEventLog[1].operation_type = "UPDATE"
    /\ cdcEventLog[1].offset = 2
    /\ cdcEventLog[1].oldData = R7a

\* --------------------------------------------------------- array data
\* m is a parseable non-Simple message whose data field is an array
CanalShaped(m) ==
    /\ m.value.json
    /\ ~isSimpleProtocol(m.value)
    /\ IsArray(m.value.data)
\* the 'CDC Event' records appended by this step
NewEvents == SubSeq(cdcEventLog', Len(cdcEventLog) + 1, Len(cdcEventLog'))

\* C12: a non-Simple message whose data is an array of N row images emits
\* exactly N events, the i-th with the payload's table, the payload's
\* operation and the i-th row as its data.
C12_ArrayGivesOneEventPerRow ==
    [][\A m \in FormatMessages :
          (Processed(m) /\ CanalShaped(m)) =>
              /\ Len(NewEvents) = Len(m.value.data.rows)
              /\ \A i \in 1..Len(NewEvents) :
                     /\ NewEvents[i].table_name = TableName(m)
                     /\ NewEvents[i].operation_type = m.value.type
                     /\ NewEvents[i].data = m.value.data.rows[i]]_vars

\* ------------------------------------------------- the email heuristic
\* m is a Simple-protocol INSERT (type 0) whose data email has the pattern
SimpleInsertLooksUpdated(m) ==
    /\ m.value.json
    /\ isSimpleProtocol(m.value)
    /\ m.value.type = "#0"
    /\ m.value.data.present
    /\ EmailLooksUpdated(m.value.data.email)
\* m is a Canal JSON INSERT whose rows all have a string (or no) email
CanalInsert(m) ==
    /\ CanalShaped(m)
    /\ m.value.type = "INSERT"
    /\ \A i \in 1..Len(m.value.data.rows) : m.value.data.rows[i].email # NumEmail
\* how many of the events appended by this step carry operation op
NewWith(op) == Cardinality({i \in 1..Len(NewEvents) : NewEvents[i].operation_type = op})
\* how many times this step incremented the event counter under label l
Incremented(l) == CopiesIn(l, cdcEventsCounter') - CopiesIn(l, cdcEventsCounter)

NewEventsFrom(sites) == \A i \in 1..Len(NewEvents) : NewEvents[i].site \in sites

\* C14: a message with a parseable value is handled by one path: the
\* Simple-protocol branch if schema, table and type are all present;
\* otherwise the Canal-Array loop if data is an array; otherwise the control
\* branch if type is WATERMARK or BOOTSTRAP; otherwise the Split-Update
\* branches.
C14_OnePathInOrder ==
    [][\A m \in FormatMessages :
          (Processed(m) /\ m.value.json) =>
              IF isSimpleProtocol(m.value)
              THEN NewEventsFrom({"simple"}) /\ UNCHANGED <<recentDeletes, timers>>
              ELSE IF IsArray(m.value.data)
              THEN /\ NewEventsFrom({"canal-json"})
                   /\ Len(NewEvents) = Len(m.value.data.rows)
                   /\ UNCHANGED <<recentDeletes, timers>>
              ELSE IF m.value.type \in {"WATERMARK", "BOOTSTRAP"}
              THEN /\ NewEventsFrom({"control"})
                   /\ Len(NewEvents) = 1
                   /\ UNCHANGED <<recentDeletes, timers>>
              ELSE NewEventsFrom({"update", "insert", "other"})]_vars

\* ------------------------------------------------ Simple-protocol events
\* the operation the Simple-protocol type stands for: 0, 1, 2, anything else
SimpleMapping(ty) ==
    CASE ty = "#0" -> "INSERT"
      [] ty = "#1" -> "UPDATE"
      [] ty = "#2" -> "DELETE"
      [] OTHER -> "unknown"

\* C15: every Simple-protocol payload, whatever its data and old fields
\* hold, produces exactly one event; its operation is the one its type maps
\* to: 0 to INSERT (UPDATE when the email heuristic applies), 1 to UPDATE,
\* 2 to DELETE, any other value to unknown.
C15_SimpleGivesOneEvent ==
    [][\A m \in FormatMessages :
          (Processed(m) /\ m.value.json /\ isSimpleProtocol(m.value)) =>
              /\ Len(NewEvents) = 1
              /\ NewEvent.site = "simple"
              /\ NewEvent.operation_type =
                     IF SimpleInsertLooksUpdated(m) THEN "UPDATE"
                     ELSE SimpleMapping(m.value.type)]_vars

\* ------------------------------------------------------- record identity
\* m is a DELETE with an old image on the Split-Update path
SplitDelete(m) ==
    /\ m.value.json
    /\ ~isSimpleProtocol(m.value)
    /\ m.value.type = "DELETE"
    /\ m.value.old.present
\* the record carries at least one of the three identity fields
HasIdentityField(r) == r.id # NoId \/ r.username # Absent \/ r.email # Absent
\* this step stored a pending delete for the message it processed
StoresDelete ==
    \E k \in DOMAIN recentDeletes' :
        /\ recentDeletes'[k].off = offset
        /\ \E t \in timers' \ timers : t.deleteKey = k

\* C16: a record has an identity (its id, else its username, else its
\* email) unless none of the three fields is present: a DELETE whose old
\* image has one of the fields is stored as a pending delete, and a DELETE
\* or INSERT whose image has none of them neither stores nor matches one.
C16_IdentityUnlessNoField ==
    [][\A m \in FormatMessages :
          /\ (Processed(m) /\ SplitDelete(m) /\ HasIdentityField(m.value.old)) =>
                StoresDelete
          /\ (Processed(m) /\ SplitDelete(m) /\ ~HasIdentityField(m.value.old)) =>
                UNCHANGED <<recentDeletes, timers>>
          /\ (Processed(m) /\ SplitInsert(m) /\ ~HasIdentityField(m.value.data)) =>
                /\ UNCHANGED <<recentDeletes, timers>>
                /\ NewEventsFrom({"insert"})]_vars

\* ------------------------------------------------------ pending-delete key
\* the (table, recordId) pair of tracked DELETE d
PairOf(d) == <<fate[d].tableName, fate[d].recordId>>
\* the (table, recordId) pair of message m: of its old image for a DELETE,
\* of its data otherwise
MessagePair(m) ==
    <<TableName(m),
      extractRecordId(IF m.value.type = "DELETE" THEN m.value.old ELSE m.value.data)>>

\* C17: records with distinct (table, recordId) pairs never share a
\* pending-delete key: the entry a message removes (collapsing it into an
\* UPDATE) or overwrites was stored for the message's own pair.
C17_DistinctPairsDistinctKeys ==
    [][\A m \in FormatMessages :
          Processed(m) =>
              \A k \in DOMAIN recentDeletes :
                  (k \notin DOMAIN recentDeletes' \/ recentDeletes'[k] # recentDeletes[k]) =>
                      PairOf(recentDeletes[k].off) = MessagePair(m)]_vars

\* ------------------------------------------------ DELETE without identity
\* C18: a Split-Update DELETE whose old image yields no record identity is
\* emitted as exactly one DELETE event when the message is processed, and
\* the pending deletes and the scheduled finalize timers stay as they were.
C18_DeleteWithoutIdentityEmittedAtOnce ==
    [][\A m \in FormatMessages :
          (Processed(m) /\ SplitDelete(m) /\ extractRecordId(m.value.old) = NullId) =>
              /\ EmitsOne(Label(TableName(m), "delete"))
              /\ NewEvent.operation_type = "DELETE"
              /\ NewEvent.data = m.value
              /\ NewEvent.offset = offset
              /\ NewEvent.timestamp = now
              /\ UNCHANGED <<recentDeletes, timers>>]_vars

\* a DELETE without identity was emitted while another delete was pending,
\* and the pending one and its timer are still there
C18_Witness ==
    /\ lastMessage = Split("DELETE", NoRow, RNoIdentity, "ts1")
    /\ DOMAIN recentDeletes = {"users_7"}
    /\ Cardinality(timers) = 1
    /\ Len(cdcEventLog) = 1
    /\ cdcEventLog[1].operation_type = "DELETE"
    /\ cdcEventLog[1].offset = 1
    /\ cdcEventLog[1].data.old = RNoIdentity

\* -------------------------------------------------------- control events
\* m is a parseable non-Simple message of type WATERMARK or BOOTSTRAP
ControlMessage(m) ==
    /\ m.value.json
    /\ ~isSimpleProtocol(m.value)
    /\ m.value.type \in {"WATERMARK", "BOOTSTRAP"}

\* C19: a non-Simple WATERMARK or BOOTSTRAP message is counted as exactly
\* one control event (table unknown, its lowercased type) and is never
\* reconciled: no pending delete is added, removed or matched and no timer
\* is scheduled, whatever data and old images it carries.
C19_ControlEventNotReconciled ==
    [][\A m \in FormatMessages :
          (Processed(m) /\ ControlMessage(m)) =>
              /\ EmitsOne(Label("unknown", ToLowerCase(m.value.type)))
              /\ NewEvent.operation_type = m.value.type
              /\ NewEvent.table_name = "unknown"
              /\ UNCHANGED <<recentDeletes, timers, fate>>]_vars

\* a WATERMARK carrying the images and commitTs of the pending delete of
\* users/7 was counted as a control event and the delete is still pending
C19_Witness ==
    /\ lastMessage = Split("WATERMARK", R7b, R7a, "ts1")
    /\ DOMAIN recentDeletes = {"users_7"}
    /\ recentDeletes["users_7"].commitTs = "ts1"
    /\ recentDeletes["users_7"].off = 0
    /\ Cardinality(timers) = 1
    /\ Len(cdcEventLog) = 1
    /\ cdcEventLog[1].site = "control"
    /\ cdcEventsCounter = SetToBag({Label("unknown", "watermark")})

\* -------------------------------------------------------- duration labels
\* C20: when processing a message produces an event, the duration observed
\* for the message carries the (table, operation) label under which the
\* event was counted.
C20_DurationLabelIsEventLabel ==
    [][\A m \in FormatMessages :
          Processed(m) =>
              \A l \in BagToSet(cdcEventsCounter') :
                  Incremented(l) > 0 => durations' = Inc(durations, l)]_vars

\* ------------------------------------------------------------ atomicity
\* this step is a processCDCMessage call
HandlerStep == offset' # offset
\* this step runs a finalize callback
FinalizeStep == \E t \in timers : t \notin timers'
\* this step runs the clean-up callback
SweepStep == sweepDue' # sweepDue

RawKeyed(m) == m.key.present /\ ~m.key.json /\ m.value.json
\* the table of the same payload arriving with no key
TableWithoutKey(m) == TableName([m EXCEPT !.key = NoKey])

\* C22: a message whose key is present but not JSON is no error: nothing is
\* counted by kafka_errors_total, the message is consumed, the raw key is
\* the key of its events and of its finalize task, and table, duration
\* label and pending-delete key are those the payload gives with no key
\* (the payload's table, else "unknown").
C22_RawKeyIsKept ==
    [][\A m \in FormatMessages :
          (Processed(m) /\ RawKeyed(m)) =>
              /\ kafkaErrorsTotal' = kafkaErrorsTotal
              /\ kafkaMessagesTotal' = kafkaMessagesTotal + 1
              /\ TableWithoutKey(m) = Or(m.value.table, "unknown")
              /\ \A i \in 1..Len(NewEvents) :
                     /\ NewEvents[i].key = m.key
                     /\ NewEvents[i].table_name = TableWithoutKey(m)
              /\ \E l \in BagToSet(durations') :
                     /\ l.table_name = TableWithoutKey(m)
                     /\ durations' = Inc(durations, l)
              /\ \A t \in timers' \ timers :
                     /\ t.messageKey = m.key
                     /\ t.tableName = TableWithoutKey(m)
                     /\ t.deleteKey = DeleteKey(TableWithoutKey(m),
                                                extractRecordId(m.value.old))
                     /\ t.deleteKey \in DOMAIN recentDeletes'
              /\ Len(NewEvents) + Cardinality(timers' \ timers) = 1]_vars

\* a DELETE and an INSERT with raw keys: the DELETE is pending under the
\* payload's table, the INSERT was emitted under table unknown with the raw
\* key, and no error was counted
C22_Witness ==
    /\ kafkaErrorsTotal = 0
    /\ kafkaMessagesTotal = 2
    /\ DOMAIN recentDeletes = {"users_8"}
    /\ \E t \in timers : t.messageKey = RawKey /\ t.deleteKey = "users_8"
    /\ Len(cdcEventLog) = 1
    /\ cdcEventLog[1].key = RawKey
    /\ cdcEventLog[1].table_name = "unknown"
    /\ cdcEventLog[1].operation_type = "INSERT"

\* ------------------------------------------------- other operation tags
\* m is a parseable non-Simple message whose type is neither INSERT nor
\* DELETE nor a control tag
OtherTag(m) ==
    /\ m.value.json
    /\ ~isSimpleProtocol(m.value)
    /\ m.value.type \notin {"INSERT", "DELETE", "WATERMARK", "BOOTSTRAP"}
\* the tag such a message is emitted with
EmittedTag(m) == IF m.value.type = Absent THEN "unknown" ELSE m.value.type

\* C23: a Split-Update message whose type is neither INSERT nor DELETE nor
\* a control tag is emitted as exactly one event carrying its tag as it is
\* (unknown when the tag is absent); its handling never fails and leaves
\* the pending deletes and the timers alone.
C23_OtherTagEmittedAsIs ==
    [][\A m \in FormatMessages :
          (Processed(m) /\ OtherTag(m)) =>
              /\ EmitsOne(Label(TableName(m), ToLowerCase(EmittedTag(m))))
              /\ NewEvent.operation_type = EmittedTag(m)
              /\ kafkaErrorsTotal' = kafkaErrorsTotal
              /\ UNCHANGED <<recentDeletes, timers>>]_vars

\* ------------------------------------------------ counter and log agree
\* the label under which the event of a log record is counted
RecordLabel(rec) == Label(rec.table_name, ToLowerCase(rec.operation_type))
LoggedLabels == {RecordLabel(cdcEventLog[i]) : i \in LogIdx}

\* C24: in every reachable state the event counter has been incremented
\* once for every 'CDC Event' record in the log, under the record's table
\* and lowercased operation, and never otherwise.
C24_CounterMatchesLog ==
    /\ BagCardinality(cdcEventsCounter) = Len(cdcEventLog)
    /\ \A l \in BagToSet(cdcEventsCounter) \cup LoggedLabels :
           CopiesIn(l, cdcEventsCounter) =
               Cardinality({i \in LogIdx : RecordLabel(cdcEventLog[i]) = l})

\* a finalized DELETE, a Simple-protocol event and a control event were
\* emitted: three records, three increments
C24_Witness ==
    /\ Len(cdcEventLog) = 3
    /\ {cdcEventLog[i].site : i \in LogIdx} = {"finalize", "simple", "control"}
    /\ BagCardinality(cdcEventsCounter) = 3
    /\ CopiesIn(Label("users", "delete"), cdcEventsCounter) = 1
    /\ CopiesIn(Label("unknown", "watermark"), cdcEventsCounter) = 1

\* ------------------------------------------------- superseded finalize
\* C25: a finalize task that fires while the entry under its key has a
\* commitTs different from the one the task was scheduled with emits
\* nothing and leaves the store, and so that entry, unchanged.
C25_SupersededFinalizeIsNoOp ==
    [][\A t \in timers :
          ( /\ t \notin timers'
            /\ t.deleteKey \in DOMAIN recentDeletes
            /\ recentDeletes[t.deleteKey].commitTs # t.commitTs ) =>
              /\ UNCHANGED <<cdcEventsCounter, cdcEventLog>>
              /\ t.deleteKey \in DOMAIN recentDeletes'
              /\ recentDeletes' = recentDeletes]_vars

\* the task of the DELETE with commitTs ts1 has fired while the entry of
\* the later DELETE with commitTs ts2 was under its key: nothing was
\* emitted and the later entry is still there with its own timer
C25_Witness ==
    /\ 0 \in Tracked /\ fate[0].commitTs = "ts1" /\ TimerFired(0)
    /\ "users_7" \in DOMAIN recentDeletes
    /\ recentDeletes["users_7"].commitTs = "ts2"
    /\ recentDeletes["users_7"].off = 1
    /\ \E t \in timers : t.offset = 1
    /\ cdcEventLog = <<>>
    /\ cdcEventsCounter = EmptyBag

\* ------------------------------------------------------ tracked DELETE
\* C26: processing a DELETE that has an old image with an identity emits
\* nothing: the store then holds, under table_recordId, one entry with the
\* message's commitTs, the processing time and the old image, every other
\* entry is as before, one finalize timer is added, due 500 ms later, and
\* the event counter and the event log are unchanged.
C26_TrackedDeleteEmitsNothing ==
    [][\A m \in Messages :
          (Processed(m) /\ SplitDelete(m) /\ extractRecordId(m.value.old) # NullId) =>
              LET k == DeleteKey(TableName(m), extractRecordId(m.value.old))
              IN  /\ DOMAIN recentDeletes' = DOMAIN recentDeletes \cup {k}
                  /\ recentDeletes'[k].commitTs = m.value.commitTs
                  /\ recentDeletes'[k].timestamp = now
                  /\ recentDeletes'[k].data = m.value.old
                  /\ \A j \in DOMAIN recentDeletes \ {k} :
                         recentDeletes'[j] = recentDeletes[j]
                  /\ timers \subseteq timers'
                  /\ Cardinality(timers' \ timers) = 1
                  /\ \A t \in timers' \ timers :
                         /\ t.deleteKey = k
                         /\ t.commitTs = m.value.commitTs
                         /\ t.due = now + CorrelationWindow
                  /\ UNCHANGED <<cdcEventsCounter, cdcEventLog>>]_vars

\* two DELETEs were tracked, the second 500 ms after the first: two
\* entries with their capture times, two timers, no event
C26_Witness ==
    /\ DOMAIN recentDeletes = {"users_7", "users_8"}
    /\ recentDeletes["users_7"].timestamp = 0
    /\ recentDeletes["users_8"].timestamp = 500
    /\ recentDeletes["users_8"].data = R8a
    /\ Cardinality(timers) = 2
    /\ lastMessage = Split("DELETE", NoRow, R8a, "ts1")
    /\ cdcEventLog = <<>>
    /\ cdcEventsCounter = EmptyBag

\* --------------------------------------------------- clean-up threshold
\* the entry under the key of task t is the one written by t's own DELETE
OwnEntryPending(t) ==
    /\ t.deleteKey \in DOMAIN recentDeletes
    /\ recentDeletes[t.deleteKey].off = t.offset

\* C27: a clean-up run removes only entries older than 5000 ms, strictly:
\* an entry aged 5000 ms or less stays in the store unchanged, with its
\* timer; and the finalize task of an entry that is still in the store
\* emits its standalone DELETE and removes the entry when it fires.
C27_SweepSparesYoungEntries ==
    [][/\ SweepStep =>
            /\ \A k \in DOMAIN recentDeletes :
                   now - recentDeletes[k].timestamp <= StalenessThreshold =>
                       /\ k \in DOMAIN recentDeletes'
                       /\ recentDeletes'[k] = recentDeletes[k]
            /\ DOMAIN recentDeletes' \subseteq DOMAIN recentDeletes
            /\ timers' = timers
       /\ \A t \in timers :
            (t \notin timers' /\ OwnEntryPending(t)) =>
                /\ EmitsOne(Label(t.tableName, "delete"))
                /\ NewEvent.site = "finalize"
                /\ NewEvent.operation_type = "DELETE"
                /\ NewEvent.offset = t.offset
                /\ NewEvent.data = t.payload
                /\ t.deleteKey \notin DOMAIN recentDeletes']_vars

\* the clean-up ran at 35000 ms: it discarded the DELETE captured at 0 and
\* spared the one captured at 30000, aged exactly 5000 ms, whose finalize
\* task emitted its DELETE
C27_Witness ==
    /\ sweepDue = 35000 + SweepPeriod
    /\ now = 35000
    /\ {0, 1} \subseteq Tracked
    /\ fate[0].capturedAt = 0 /\ fate[0].out = <<"swept">>
    /\ fate[1].capturedAt = 30000 /\ fate[1].out = <<"delete">>
    /\ Len(cdcEventLog) = 1
    /\ cdcEventLog[1].site = "finalize"
    /\ cdcEventLog[1].offset = 1
    /\ cdcEventLog[1].timestamp = 35000

\* ------------------------------------------- INSERT with another commitTs
\* a pending delete is under the INSERT's key with a different commitTs
HasPendingMismatch(m) ==
    /\ extractRecordId(m.value.data) # NullId
    /\ InsertKey(m) \in DOMAIN recentDeletes
    /\ recentDeletes[InsertKey(m)].commitTs # m.value.commitTs

\* C28: an INSERT whose key has a pending delete with a different commitTs
\* is emitted at once as a standalone INSERT and leaves the entry and every
\* finalize timer as they were; the finalize task of a pending entry then
\* emits that DELETE as a standalone DELETE, never an UPDATE.
C28_MismatchedInsertLeavesDelete ==
    [][/\ \A m \in Messages :
            (Processed(m) /\ SplitInsert(m) /\ HasPendingMismatch(m)) =>
                /\ recentDeletes' = recentDeletes
                /\ timers' = timers
                /\ EmitsOne(Label(TableName(m), "insert"))
                /\ NewEvent.operation_type = "INSERT"
       /\ \A t \in timers :
            (t \notin timers' /\ OwnEntryPending(t)) =>
                /\ Len(NewEvents) = 1
                /\ NewEvents[1].operation_type = "DELETE"
                /\ NewEvents[1].offset = t.offset
                /\ fate'[t.offset].out = <<"delete">>]_vars

\* the DELETE with commitTs ts2 was pending when the INSERT with ts1 came:
\* the INSERT was emitted at once, the DELETE when its window had elapsed;
\* two events, no UPDATE
C28_Witness ==
    /\ Tracked = {0}
    /\ fate[0].commitTs = "ts2" /\ fate[0].out = <<"delete">>
    /\ recentDeletes = EmptyMap
    /\ Len(cdcEventLog) = 2
    /\ cdcEventLog[1].operation_type = "INSERT"
    /\ cdcEventLog[1].offset = 1
    /\ cdcEventLog[1].timestamp = 0
    /\ cdcEventLog[2].operation_type = "DELETE"
    /\ cdcEventLog[2].offset = 0
    /\ cdcEventLog[2].timestamp >= CorrelationWindow

\* ------------------------------------------- entries and their timers
\* no scheduled finalize callback is overdue
Punctual == \A t \in timers : now <= t.due
\* the finalize task scheduled by the DELETE that wrote the entry under k
OwnTimers(k) ==
    {t \in timers : /\ t.offset = recentDeletes[k].off
                    /\ t.deleteKey = k
                    /\ t.commitTs = recentDeletes[k].commitTs
                    /\ t.due = recentDeletes[k].timestamp + CorrelationWindow}

\* C29: every entry in the store was written by a DELETE whose own finalize
\* timer has not fired yet; so, as long as no timer is overdue, no entry is
\* older than 500 ms and a clean-up run discards nothing.
C29_EntriesHaveUnfiredTimer ==
    /\ [](/\ \A k \in DOMAIN recentDeletes : Cardinality(OwnTimers(k)) = 1
          /\ Punctual =>
                \A k \in DOMAIN recentDeletes :
                    now - recentDeletes[k].timestamp <= CorrelationWindow)
    /\ [][(SweepStep /\ Punctual) => recentDeletes' = recentDeletes]_vars

\* 500 ms after two DELETEs of one record: the task of the first has fired
\* on time and found the entry superseded; the entry of the second is
\* 500 ms old and its own task, due now, has not fired yet
C29_Witness ==
    /\ now = CorrelationWindow
    /\ Tracked = {0, 1} /\ TimerFired(0) /\ ~TimerFired(1)
    /\ DOMAIN recentDeletes = {"users_7"}
    /\ recentDeletes["users_7"].off = 1
    /\ recentDeletes["users_7"].timestamp = 0
    /\ Punctual
    /\ Cardinality(OwnTimers("users_7")) = 1

\* ----------------------------------------------- the store drains
\* C30: once no more messages arrive, and with every scheduled finalize
\* callback firing eventually, the store becomes empty and stays empty,
\* without any clean-up run.
C30_StoreEventuallyEmpty == <>[](recentDeletes = EmptyMap)

\* two DELETEs were tracked, no clean-up has run, their finalize callbacks
\* have fired and the store is empty
C30_Witness ==
    /\ Cardinality(Tracked) = 2
    /\ timers = {}
    /\ recentDeletes = EmptyMap
    /\ sweepDue = SweepPeriod
    /\ \A d \in Tracked : fate[d].out = <<"delete">>
    /\ Len(cdcEventLog) = 2

\* ------------------------------------------------- the message counters
\* C31: every call of processCDCMessage increments exactly one of
\* kafka_messages_consumed_total and kafka_errors_total, by one: the error
\* counter when the handling failed inside the try block, the consumed
\* counter on every other path (parse error included); steps that are not
\* a call change neither; so the two counters always add up to the number
\* of messages processed.
C31_OneMessageCounterPerCall ==
    /\ [](kafkaMessagesTotal + kafkaErrorsTotal = offset)
    /\ [][IF HandlerStep
           THEN /\ offset' = offset + 1
                /\ IF FailsInside(lastMessage')
                   THEN /\ kafkaErrorsTotal' = kafkaErrorsTotal + 1
                        /\ kafkaMessagesTotal' = kafkaMessagesTotal
                   ELSE /\ kafkaMessagesTotal' = kafkaMessagesTotal + 1
                        /\ kafkaErrorsTotal' = kafkaErrorsTotal
           ELSE UNCHANGED <<kafkaMessagesTotal, kafkaErrorsTotal>>]_vars

\* three calls: a control event, a message that is not JSON and a message
\* whose handling failed; two were counted as consumed, one as an error
C31_Witness ==
    /\ offset = 3
    /\ kafkaMessagesTotal = 2
    /\ kafkaErrorsTotal = 1
    /\ BagIn(Label("unknown", "parse_error"), durations)
    /\ BagIn(Label("unknown", "watermark"), durations)
    /\ BagIn(Label("error", "error"), durations)

\* ------------------------------------------- commitTs, present or not
\* the entry an INSERT finds under its key
FoundEntry(m) == recentDeletes[InsertKey(m)]
\* the INSERT finds some entry under its key
FindsEntry(m) ==
    /\ SplitInsert(m)
    /\ extractRecordId(m.value.data) # NullId
    /\ InsertKey(m) \in DOMAIN recentDeletes

\* the commitTs of the DELETE message that wrote that entry
DeleteCommitTs(m) == fate[FoundEntry(m).off].commitTs

\* C32: an INSERT that finds a pending delete under its key is collapsed
\* with it into one UPDATE exactly when the two commitTs are equal, a
\* missing commitTs being equal to a missing one only: when both lack
\* commitTs the entry is removed and one UPDATE with the stored old image is
\* emitted; when only one of the two carries a commitTs the INSERT is
\* emitted standalone and the entry stays.
C32_CommitTsStrictEquality ==
    [][\A m \in CommitTsMessages :
          (Processed(m) /\ FindsEntry(m)) =>
              /\ (DeleteCommitTs(m) = Absent /\ m.value.commitTs = Absent) =>
                     /\ EmitsOne(Label(TableName(m), "update"))
                     /\ NewEvent.operation_type = "UPDATE"
                     /\ NewEvent.oldData = FoundEntry(m).data
                     /\ NewEvent.newData = m.value.data
                     /\ InsertKey(m) \notin DOMAIN recentDeletes'
                     /\ fate'[FoundEntry(m).off].out = <<"update">>
              /\ ((DeleteCommitTs(m) = Absent) # (m.value.commitTs = Absent)) =>
                     /\ EmitsOne(Label(TableName(m), "insert"))
                     /\ NewEvent.operation_type = "INSERT"
                     /\ recentDeletes' = recentDeletes
                     /\ fate'[FoundEntry(m).off].out = fate[FoundEntry(m).off].out
              /\ (NewEvent.operation_type = "UPDATE") <=>
                     (DeleteCommitTs(m) = m.value.commitTs)]_vars

\* a DELETE and the INSERT after it, neither with a commitTs, gave one
\* UPDATE and nothing else
C32_Witness ==
    /\ lastMessage = Split("INSERT", R7b, NoRow, Absent)
    /\ offset = 2
    /\ Tracked = {0}
    /\ fate[0].commitTs = Absent
    /\ fate[0].out = <<"update">>
    /\ Len(cdcEventLog) = 1
    /\ cdcEventLog[1].operation_type = "UPDATE"
    /\ cdcEventLog[1].oldData = R7a
    /\ cdcEventLog[1].newData = R7b
    /\ recentDeletes = EmptyMap

\* an INSERT without commitTs was emitted standalone while the DELETE with
\* a commitTs stays pending
C32_WitnessMixed ==
    /\ lastMessage = Split("INSERT", R7b, NoRow, Absent)
    /\ "users_7" \in DOMAIN recentDeletes
    /\ recentDeletes["users_7"].commitTs = "ts1"
    /\ cdcEventLog[Len(cdcEventLog)].operation_type = "INSERT"

\* ------------------------------------- the Simple path and the store
\* m is a Simple-protocol message; with type 2 a DELETE, with type 0 an INSERT
SimpleMessage(m) ==
    /\ m.value.json
    /\ m.value.schema # Absent /\ m.value.table # Absent /\ m.value.type # Absent
SimpleDelete(m) == SimpleMessage(m) /\ m.value.type = "#2"
SimpleInsert(m) == SimpleMessage(m) /\ m.value.type = "#0"
\* m is a Simple INSERT processed right after a Simple DELETE for the same
\* record, which was emitted as a DELETE
FollowsSimpleDelete(m) ==
    /\ Processed(m)
    /\ SimpleInsert(m)
    /\ SimpleDelete(lastMessage)
    /\ lastMessage.key = m.key
    /\ lastMessage.value.table = m.value.table
    /\ Len(cdcEventLog) > 0
    /\ cdcEventLog[Len(cdcEventLog)].operation_type = "DELETE"
    /\ cdcEventLog[Len(cdcEventLog)].offset = offset - 1
\* a Simple message or a message that is not JSON leaves the store, the
\* timers and the history of every tracked DELETE as they are
LeavesStoreAlone ==
    \A m \in FormatMessages :
        (Processed(m) /\ (SimpleMessage(m) \/ ~m.value.json)) =>
            UNCHANGED <<recentDeletes, timers, fate>>

\* C33 as stated: Simple-protocol messages and messages that are not JSON
\* never touch the store nor schedule a timer, and a Simple INSERT that
\* follows a Simple DELETE for the same record is emitted as one INSERT.
C33_SimpleDeleteInsertGiveDeleteInsert ==
    [][/\ LeavesStoreAlone
       /\ \A m \in FormatMessages :
              FollowsSimpleDelete(m) =>
                  /\ EmitsOne(Label(m.value.table, "insert"))
                  /\ NewEvent.operation_type = "INSERT"]_vars

\* C33 amended: Simple-protocol messages and messages that are not JSON
\* never touch the store nor schedule a timer, and a Simple INSERT that
\* follows a Simple DELETE for the same record is handled on its own: one
\* INSERT event, or one UPDATE event when its email looks updated, or no
\* event and one counted error when its handling fails; never an UPDATE
\* made of the two.
C33_SimpleNeverCorrelates ==
    [][/\ LeavesStoreAlone
       /\ \A m \in FormatMessages :
              FollowsSimpleDelete(m) =>
                  IF FailsInside(m)
                  THEN /\ UNCHANGED <<cdcEventLog, cdcEventsCounter>>
                       /\ kafkaErrorsTotal' = kafkaErrorsTotal + 1
                  ELSE /\ EmitsOne(Label(m.value.table,
                                        IF SimpleInsertLooksUpdated(m)
                                        THEN "update" ELSE "insert"))
                       /\ NewEvent.operation_type =
                              IF SimpleInsertLooksUpdated(m) THEN "UPDATE" ELSE "INSERT"
                       /\ NewEvent.site = "simple"
                       /\ NewEvent.data = m.value.data
                       /\ NewEvent.oldData = NoRow]_vars

\* a Split-Update DELETE for record 7 is pending; a Simple DELETE and a
\* Simple INSERT for record 7 followed and gave one DELETE and one INSERT,
\* and the pending delete is still there
C33_Witness ==
    /\ offset = 3
    /\ lastMessage = Simple("#0", R7b, NoRow)
    /\ DOMAIN recentDeletes = {"users_7"}
    /\ recentDeletes["users_7"].off = 0
    /\ Cardinality(timers) = 1
    /\ Len(cdcEventLog) = 2
    /\ cdcEventLog[1].operation_type = "DELETE" /\ cdcEventLog[1].site = "simple"
    /\ cdcEventLog[2].operation_type = "INSERT" /\ cdcEventLog[2].site = "simple"

\* ------------------------------- no email heuristic on the Split path
\* m is handled on the Split-Update path
SplitMessage(m) ==
    /\ m.value.json
    /\ ~SimpleMessage(m)
    /\ m.value.type \notin {"WATERMARK", "BOOTSTRAP"}
\* an INSERT on the Split-Update path that finds no matching pending delete
\* and whose email looks updated
UnmatchedLooksUpdated(m) ==
    /\ SplitInsert(m)
    /\ ~HasPendingMatch(m)
    /\ EmailLooksUpdated(m.value.data.email)
\* this step emits an UPDATE event
EmitsUpdate == \E i \in 1..Len(NewEvents) : NewEvents[i].operation_type = "UPDATE"
\* this step removes an entry from the store
ClaimsEntry == \E k \in DOMAIN recentDeletes : k \notin DOMAIN recentDeletes'
\* an unmatched INSERT whose email looks updated is emitted as one INSERT
UnmatchedStaysInsert ==
    \A m \in FormatMessages :
        (Processed(m) /\ UnmatchedLooksUpdated(m)) =>
            /\ EmitsOne(Label(TableName(m), "insert"))
            /\ NewEvent.operation_type = "INSERT"
            /\ NewEvent.data = m.value.data

\* C34 as stated: on the Split-Update path an unmatched INSERT whose email
\* looks updated is emitted as INSERT, and an UPDATE event is emitted only
\* by a step that claims a pending delete.
C34_UpdateOnlyWhenClaimed ==
    [][/\ UnmatchedStaysInsert
       /\ \A m \in FormatMessages :
              (Processed(m) /\ SplitMessage(m) /\ EmitsUpdate) => ClaimsEntry]_vars

\* C34 amended: on the Split-Update path an unmatched INSERT whose email
\* looks updated is emitted as INSERT, and a message gives an UPDATE event
\* only when it claims a pending delete or when its own tag is UPDATE.
C34_NoEmailHeuristicOnSplitPath ==
    [][/\ UnmatchedStaysInsert
       /\ \A m \in FormatMessages :
              (Processed(m) /\ SplitMessage(m) /\ EmitsUpdate) =>
                  \/ ClaimsEntry /\ SplitInsert(m) /\ HasPendingMatch(m)
                  \/ m.value.type = "UPDATE" /\ recentDeletes' = recentDeletes]_vars

\* an INSERT whose email contains updated_ arrived with nothing pending and
\* was emitted as INSERT
C34_Witness ==
    /\ offset = 1
    /\ lastMessage = Split("INSERT", RUpdated, NoRow, "ts1")
    /\ Len(cdcEventLog) = 1
    /\ cdcEventLog[1].operation_type = "INSERT"
    /\ cdcEventLog[1].data = RUpdated
    /\ BagIn(Label("users", "insert"), cdcEventsCounter)
    /\ recentDeletes = EmptyMap

\* --------------------------------------------------- table name resolution
\* the table of a parsed key: its tbl field, else its table field
KeyNames(m, present(_)) ==
    IF m.key.present /\ m.key.json /\ present(m.key.tbl) THEN m.key.tbl
    ELSE IF m.key.present /\ m.key.json /\ present(m.key.table) THEN m.key.table
    ELSE "unknown"
\* payload table, else key tbl, else key table, else unknown
Resolve(m, present(_)) ==
    IF present(m.value.table) THEN m.value.table ELSE KeyNames(m, present)
IsPresent(x) == x # Absent
IsNamed(x) == x # Absent /\ x # ""
\* the resolution as stated: a field counts when it is present
ResolvedTable(m) == Resolve(m, IsPresent)
\* the resolution as amended: a field counts when it is present and not
\* empty, and a control event is always under table unknown
ResolvedTableOrControl(m) ==
    IF ControlMessage(m) THEN "unknown" ELSE Resolve(m, IsNamed)

\* every event and every pending-delete key of this step carries the table
\* name resolve gives for the message that caused it: the message of a
\* handler step, the tracked DELETE of a finalize step; and an INSERT is
\* collapsed with a DELETE of the same record only when both resolve to
\* the same table
TablesResolvedBy(resolve(_)) ==
    IF HandlerStep
    THEN LET m == lastMessage'
             table == resolve(m)
         IN  /\ \A i \in 1..Len(NewEvents) : NewEvents[i].table_name = table
             /\ \A l \in BagToSet(cdcEventsCounter') :
                    CopiesIn(l, cdcEventsCounter') > CopiesIn(l, cdcEventsCounter)
                        => l.table_name = table
             /\ \A t \in timers' \ timers :
                    /\ t.tableName = table
                    /\ t.deleteKey = DeleteKey(table, extractRecordId(m.value.old))
                    /\ t.deleteKey \in DOMAIN recentDeletes'
                    /\ fate'[t.offset].tableName = table
             /\ \A d \in Tracked :
                    (/\ Len(fate'[d].out) > Len(fate[d].out)
                     /\ fate'[d].out[Len(fate'[d].out)] = "update"
                     /\ fate[d].recordId = extractRecordId(m.value.data))
                        => fate[d].tableName = table
    ELSE \A i \in 1..Len(NewEvents) :
             /\ NewEvents[i].offset \in Tracked
             /\ NewEvents[i].table_name = fate[NewEvents[i].offset].tableName

\* C35 as stated: the table name of every event and of every
\* pending-delete key is the payload's table field when present, otherwise
\* the key's tbl field, otherwise the key's table field, otherwise unknown,
\* and a DELETE and an INSERT for the same record correlate only when both
\* resolve to the same table name.
C35_TableFromPayloadThenKey == [][TablesResolvedBy(ResolvedTable)]_vars

\* C35 amended: the same, where a field counts only when it is present and
\* not empty, and except for control events, whose table name is always
\* unknown.
C35_TableFromPayloadThenKeyUnlessControl ==
    [][TablesResolvedBy(ResolvedTableOrControl)]_vars

\* a DELETE whose payload names users under a key naming orders is pending
\* as users_7; an INSERT whose table comes from the key's tbl field (users)
\* was collapsed with it; an INSERT whose key names orders in tbl and users
\* in table was emitted on its own under orders
C35_Witness ==
    /\ offset = 3
    /\ Tracked = {0}
    /\ fate[0].tableName = "users" /\ fate[0].deleteKey = "users_7"
    /\ fate[0].out = <<"update">>
    /\ Len(cdcEventLog) = 2
    /\ cdcEventLog[1].operation_type = "UPDATE" /\ cdcEventLog[1].table_name = "users"
    /\ cdcEventLog[1].key = TableKey("users", Absent)
    /\ cdcEventLog[2].operation_type = "INSERT" /\ cdcEventLog[2].table_name = "orders"
    /\ cdcEventLog[2].key = TableKey("orders", "users")

====
